---------------------------- MODULE Spec2Model ----------------------------
(***************************************************************************)
(* Model of movie_recommender.py: the loaders that build the two           *)
(* dictionaries of the CLI session, and the five queries run on them.      *)
(*                                                                         *)
(*   - A Python str is a sequence of character codes, so that the empty    *)
(*     string, string equality and the lexicographic order of sorted()     *)
(*     keys are the ones of Python.                                        *)
(*   - A Python dict is a sequence of <<key, value>> pairs with distinct   *)
(*     keys, in insertion order (the order .items() iterates in).          *)
(*   - A rating is a number; an average is an exact fraction <<num, den>>  *)
(*     in lowest terms (IEEE rounding of sum()/len() is not modelled).     *)
(***************************************************************************)
EXTENDS Integers, Sequences, FiniteSets, TLC

VARIABLES movies, ratings, cmd, res

vars == <<movies, ratings, cmd, res>>

(***************************************************************************)
(* Bounds of the inputs.                                                   *)
(***************************************************************************)
\* lines (after the header) of a movies file of the generic family
MaxMovieLines == 2
\* lines (after the header) of a ratings file of the generic family
MaxRatingLines == 2
\* ratings one movie gets in the dense family
MaxDenseObs == 2
\* the queries ask for n in -MaxNeg .. MaxN
MaxNeg == 1
MaxN == 2
\* the large family has PoolSize + MaxExtra movies in one genre
MaxExtra == 1

(***************************************************************************)
(* Program constants.                                                      *)
(***************************************************************************)
\* load_ratings keeps 0.0 <= rating <= 5.0
MinRating == 0
MaxRating == 5
\* recommend_movies: top_movies_in_genre(50, ...)
PoolSize == 50
\* recommend_movies: recs[:3]
RecCount == 3

(***************************************************************************)
(* Strings.                                                                *)
(***************************************************************************)
EmptyStr == << >>

\* Python's str < str: code point by code point, a proper prefix is smaller
RECURSIVE LexLess(_, _)
LexLess(a, b) ==
    IF Len(b) = 0 THEN FALSE
    ELSE IF Len(a) = 0 THEN TRUE
    ELSE IF Head(a) # Head(b) THEN Head(a) < Head(b)
    ELSE LexLess(Tail(a), Tail(b))

\* movie names "a" < "ab" < "b"
NameA == <<1>>
NameAB == <<1, 2>>
NameB == <<2>>
Names == {NameA, NameAB, NameB}

\* genres "", "c", "d"
GenreC == <<3>>
GenreD == <<4>>
Genres == {EmptyStr, GenreC, GenreD}

\* user ids "u1", "u2"; "u3" rates nothing
User1 == <<5, 1>>
User2 == <<5, 2>>
User3 == <<5, 3>>
Users == {User1, User2}
QueryUsers == Users \cup {User3}

(***************************************************************************)
(* Fractions.                                                              *)
(***************************************************************************)
RECURSIVE GCD(_, _)
GCD(a, b) == IF b = 0 THEN a ELSE GCD(b, a % b)

\* num / den in lowest terms, den > 0, num >= 0
Frac(num, den) == LET g == GCD(num, den) IN <<num \div g, den \div g>>

FracAdd(x, y) == Frac(x[1] * y[2] + y[1] * x[2], x[2] * y[2])

FracDiv(x, k) == Frac(x[1], x[2] * k)

FracLess(x, y) == x[1] * y[2] < y[1] * x[2]

(***************************************************************************)
(* Dictionaries.                                                           *)
(***************************************************************************)
HasKey(d, k) == \E i \in 1..Len(d) : d[i][1] = k

\* d.get(k, default)
Get(d, k, default) ==
    IF HasKey(d, k) THEN d[CHOOSE i \in 1..Len(d) : d[i][1] = k][2] ELSE default

\* d[k] = v: a new key goes last, an old key keeps its place
Put(d, k, v) ==
    IF HasKey(d, k)
    THEN LET j == CHOOSE i \in 1..Len(d) : d[i][1] = k
         IN  SubSeq(d, 1, j - 1) \o << <<k, v>> >> \o SubSeq(d, j + 1, Len(d))
    ELSE Append(d, <<k, v>>)

(***************************************************************************)
(* Loops.  For(Step, lo, hi, acc) is                                       *)
(*     for i in lo..hi: acc = Step(acc, i)                                 *)
(* The range is split in halves and the left half is evaluated before the  *)
(* right one is entered (the test left = left does that), which applies    *)
(* Step in the order of the loop and keeps the recursion logarithmic.      *)
(***************************************************************************)
RECURSIVE For(_, _, _, _)
For(Step(_, _), lo, hi, acc) ==
    IF lo > hi THEN acc
    ELSE IF lo = hi THEN Step(acc, lo)
    ELSE LET mid == (lo + hi) \div 2
             left == For(Step, lo, mid, acc)
         IN  IF left = left THEN For(Step, mid + 1, hi, left) ELSE left

(***************************************************************************)
(* The loaders.  A file is the sequence of its well-formed rows after the  *)
(* header; a rating is already a number.                                   *)
(***************************************************************************)
load_movies_row(res_, row) ==
    IF row.name = EmptyStr THEN res_
    ELSE Put(res_, row.name, <<row.id, row.genre>>)

load_movies(rows) ==
    For(LAMBDA acc, i : load_movies_row(acc, rows[i]), 1, Len(rows), << >>)

RatingInRange(r) == MinRating <= r /\ r <= MaxRating

load_ratings_row(res_, row) ==
    IF row.name = EmptyStr \/ ~RatingInRange(row.rating) THEN res_
    ELSE Put(res_, row.name, Append(Get(res_, row.name, << >>), <<row.user, row.rating>>))

load_ratings(rows) ==
    For(LAMBDA acc, i : load_ratings_row(acc, rows[i]), 1, Len(rows), << >>)

(***************************************************************************)
(* Averages, sorting, slicing.                                             *)
(***************************************************************************)
\* sum(nums) of a list of (user_id, rating)
SumRatings(vals) == For(LAMBDA acc, i : acc + vals[i][2], 1, Len(vals), 0)

\* sum(nums) / len(nums) of a non-empty list of (user_id, rating)
Average(vals) == Frac(SumRatings(vals), Len(vals))

\* KeyLess with equal scores ordered by name descending
KeyLessNameDescending(x, y) ==
    \/ FracLess(y[2], x[2])
    \/ x[2] = y[2] /\ LexLess(y[1], x[1])

\* KeyLess on the score alone: key=lambda x: -x[1]
KeyLessScoreOnly(x, y) == FracLess(y[2], x[2])

\* the order of key=lambda x: (-x[1], x[0]) on items <<name, score>>
KeyLess(x, y) ==
    \/ FracLess(y[2], x[2])
    \/ x[2] = y[2] /\ LexLess(x[1], y[1])

\* x put into the sorted s, after the items that are not greater
InsertSorted(s, x) ==
    LET p == Cardinality({j \in 1..Len(s) : ~KeyLess(x, s[j])})
    IN  SubSeq(s, 1, p) \o <<x>> \o SubSeq(s, p + 1, Len(s))

\* sorted(items, key=...): a stable sort
Sorted(items) ==
    For(LAMBDA acc, i : InsertSorted(acc, items[i]), 1, Len(items), << >>)

\* s[:n], for n of either sign
Slice(s, n) ==
    IF n >= 0
    THEN SubSeq(s, 1, IF n < Len(s) THEN n ELSE Len(s))
    ELSE SubSeq(s, 1, IF Len(s) + n > 0 THEN Len(s) + n ELSE 0)

\* [name for name, _ in items]
KeysOf(items) == [i \in 1..Len(items) |-> items[i][1]]

(***************************************************************************)
(* The queries.                                                            *)
(***************************************************************************)
top_movies_step(averages, entry) ==
    IF entry[2] # << >> THEN Put(averages, entry[1], Average(entry[2])) ELSE averages

top_movies(n, rs) ==
    LET averages == For(LAMBDA acc, i : top_movies_step(acc, rs[i]), 1, Len(rs), << >>)
    IN  KeysOf(Slice(Sorted(averages), n))

\* whether a catalog entry takes part in the ranking of a genre
InGenre(info, genre) == info[2] = genre

\* top_movies_in_genre_step with a movie without ratings ranked at score 0
top_movies_in_genre_step_zero(genre_movies, genre, entry, rs) ==
    LET m_name == entry[1]
        movie_ratings == Get(rs, m_name, << >>)
    IN  IF InGenre(entry[2], genre)
        THEN Put(genre_movies, m_name,
                 IF movie_ratings = << >> THEN Frac(0, 1) ELSE Average(movie_ratings))
        ELSE genre_movies

top_movies_in_genre_step(genre_movies, genre, entry, rs) ==
    LET m_name == entry[1]
        movie_ratings == Get(rs, m_name, << >>)
    IN  IF InGenre(entry[2], genre) /\ movie_ratings # << >>
        THEN Put(genre_movies, m_name, Average(movie_ratings))
        ELSE genre_movies

top_movies_in_genre(n, genre, ms, rs) ==
    LET genre_movies == For(LAMBDA acc, i : top_movies_in_genre_step(acc, genre, ms[i], rs),
                            1, Len(ms), << >>)
    IN  KeysOf(Slice(Sorted(genre_movies), n))

\* GenreContribution pooling the individual ratings (sum and number of ratings)
GenreContributionPooled(movie_ratings) ==
    <<Frac(SumRatings(movie_ratings), 1), Len(movie_ratings)>>

\* what one rated movie adds to its genre's <<genre_avgs, genre_counts>>
GenreContribution(movie_ratings) == <<Average(movie_ratings), 1>>

\* acc: genre -> <<genre_avgs[genre], genre_counts[genre]>>
top_genres_step(acc, entry, rs) ==
    LET movie_genre == entry[2][2]
        movie_ratings == Get(rs, entry[1], << >>)
        old == Get(acc, movie_genre, <<Frac(0, 1), 0>>)
        add == GenreContribution(movie_ratings)
    IN  IF movie_ratings # << >>
        THEN Put(acc, movie_genre, <<FracAdd(old[1], add[1]), old[2] + add[2]>>)
        ELSE acc

\* genre_mean = {g: genre_avgs[g] / genre_counts[g]}
genre_mean(ms, rs) ==
    LET sums == For(LAMBDA acc, i : top_genres_step(acc, ms[i], rs), 1, Len(ms), << >>)
    IN  [i \in 1..Len(sums) |-> <<sums[i][1], FracDiv(sums[i][2][1], sums[i][2][2])>>]

top_genres(n, ms, rs) == KeysOf(Slice(Sorted(genre_mean(ms, rs)), n))

\* the items of one movie's list that user_id gave, in list order
UserVals(user_ratings, user_id) == SelectSeq(user_ratings, LAMBDA item : item[1] = user_id)

\* user_top_genre_step with a movie missing from the catalog put in genre "d"
user_top_genre_step_default_genre(genre_ratings, user_id, ms, entry) ==
    LET m_name == entry[1]
        vals == UserVals(entry[2], user_id)
    IN  IF vals # << >>
        THEN LET movie_genre == Get(ms, m_name, <<0, GenreD>>)[2]
             IN  Put(genre_ratings, movie_genre, Get(genre_ratings, movie_genre, << >>) \o vals)
        ELSE genre_ratings

\* genre_ratings: genre -> the user's ratings, genres in order of first encounter
user_top_genre_step(genre_ratings, user_id, ms, entry) ==
    LET m_name == entry[1]
        vals == UserVals(entry[2], user_id)
    IN  IF vals # << >> /\ HasKey(ms, m_name)
        THEN LET movie_genre == Get(ms, m_name, << >>)[2]
             IN  Put(genre_ratings, movie_genre, Get(genre_ratings, movie_genre, << >>) \o vals)
        ELSE genre_ratings

\* Better with avg >= best_avg
BetterOrEqual(avg, best_avg) == ~FracLess(avg, best_avg)

\* if avg > best_avg
Better(avg, best_avg) == FracLess(best_avg, avg)

\* best: <<best_genre, best_avg>>
best_genre_step(best, entry) ==
    LET avg == Average(entry[2])
    IN  IF Better(avg, best[2]) THEN <<entry[1], avg>> ELSE best

user_top_genre(user_id, ms, rs) ==
    LET genre_ratings == For(LAMBDA acc, i : user_top_genre_step(acc, user_id, ms, rs[i]),
                             1, Len(rs), << >>)
    IN  For(LAMBDA best, i : best_genre_step(best, genre_ratings[i]),
            1, Len(genre_ratings), <<EmptyStr, <<-1, 1>>>>)[1]

\* rated: the movies with an observation by user_id
RatedBy(user_id, rs) ==
    {rs[i][1] : i \in {j \in 1..Len(rs) : UserVals(rs[j][2], user_id) # << >>}}

\* NotRated without the filter
NotRatedKeepsAll(candidates, rated) == candidates

\* [m for m in candidates if m not in rated]
NotRated(candidates, rated) == SelectSeq(candidates, LAMBDA m : m \notin rated)

recommend_movies(user_id, ms, rs) ==
    LET fav == user_top_genre(user_id, ms, rs)
    IN  IF fav = EmptyStr THEN << >>
        ELSE Slice(NotRated(top_movies_in_genre(PoolSize, fav, ms, rs), RatedBy(user_id, rs)),
                   RecCount)

(***************************************************************************)
(* Input files.                                                            *)
(***************************************************************************)
SeqsUpTo(S, k) == UNION {[1..j -> S] : j \in 0..k}

MovieIds == {1}
MovieRows == [genre : Genres, id : MovieIds, name : Names \cup {EmptyStr}]
FileRatings == {0, 5, 6}
RatingRows == [name : Names \cup {EmptyStr}, rating : FileRatings, user : Users]

MovieFiles == SeqsUpTo(MovieRows, MaxMovieLines)
RatingFiles == SeqsUpTo(RatingRows, MaxRatingLines)

NRange == (0 - MaxNeg)..MaxN

NoCmd == [op |-> "none", n |-> 0, genre |-> EmptyStr, user |-> EmptyStr]

(***************************************************************************)
(* The session (main): the data is loaded; at the menu (cmd = NoCmd) one   *)
(* handler is chosen; it computes res, prints it and returns to the menu.  *)
(***************************************************************************)
\* the generic family: any two short files
InitSmall ==
    \E mf \in MovieFiles, rf \in RatingFiles :
        /\ movies = load_movies(mf)
        /\ ratings = load_ratings(rf)

\* the dense family: three movies in two genres, each rated up to
\* MaxDenseObs times by one user
DenseMovieFile ==
    << [genre |-> GenreC, id |-> 1, name |-> NameA],
       [genre |-> GenreC, id |-> 2, name |-> NameAB],
       [genre |-> GenreD, id |-> 3, name |-> NameB] >>

DenseRatings == {0, 3, 5}

DenseRows(name, vals) == [i \in 1..Len(vals) |-> [name |-> name, rating |-> vals[i], user |-> User1]]

InitDense ==
    \E va, vab, vb \in SeqsUpTo(DenseRatings, MaxDenseObs) :
        /\ movies = load_movies(DenseMovieFile)
        /\ ratings = load_ratings(DenseRows(NameA, va) \o DenseRows(NameAB, vab)
                                      \o DenseRows(NameB, vb))

\* the large family: BigSize movies "m01", "m02", ... of one genre, each
\* rated MaxRating by User2; User1 also rated the first k of them r, for
\* k near 0 and k near the size of the candidate pool
BigSize == PoolSize + MaxExtra

BigName(i) == <<7, i \div 10, i % 10>>

BigMovieFile == [i \in 1..BigSize |-> [genre |-> GenreD, id |-> i, name |-> BigName(i)]]

BigRatingFile(k, r) ==
    [i \in 1..BigSize |-> [name |-> BigName(i), rating |-> MaxRating, user |-> User2]]
    \o [i \in 1..k |-> [name |-> BigName(i), rating |-> r, user |-> User1]]

BigRated == (0..1) \cup ((PoolSize - RecCount)..BigSize)

InitBig ==
    \E k \in BigRated, r \in {MinRating, MaxRating} :
        /\ movies = load_movies(BigMovieFile)
        /\ ratings = load_ratings(BigRatingFile(k, r))

Init ==
    /\ InitSmall \/ InitDense \/ InitBig
    /\ cmd = NoCmd
    /\ res = << >>

\* sessions on the generic family only
InitOrder ==
    /\ InitSmall
    /\ cmd = NoCmd
    /\ res = << >>

\* sessions on the large family only
InitPool ==
    /\ InitBig
    /\ cmd = NoCmd
    /\ res = << >>

TopMovies ==
    \E n \in NRange :
        /\ cmd = NoCmd
        /\ cmd' = [NoCmd EXCEPT !.op = "top_movies", !.n = n]
        /\ res' = top_movies(n, ratings)
        /\ UNCHANGED <<movies, ratings>>

TopMoviesInGenre ==
    \E n \in NRange, genre \in Genres :
        /\ cmd = NoCmd
        /\ cmd' = [NoCmd EXCEPT !.op = "top_movies_in_genre", !.n = n, !.genre = genre]
        /\ res' = top_movies_in_genre(n, genre, movies, ratings)
        /\ UNCHANGED <<movies, ratings>>

TopGenres ==
    \E n \in NRange :
        /\ cmd = NoCmd
        /\ cmd' = [NoCmd EXCEPT !.op = "top_genres", !.n = n]
        /\ res' = top_genres(n, movies, ratings)
        /\ UNCHANGED <<movies, ratings>>

UserTopGenre ==
    \E user \in QueryUsers :
        /\ cmd = NoCmd
        /\ cmd' = [NoCmd EXCEPT !.op = "user_top_genre", !.user = user]
        /\ res' = user_top_genre(user, movies, ratings)
        /\ UNCHANGED <<movies, ratings>>

Recommend ==
    \E user \in QueryUsers :
        /\ cmd = NoCmd
        /\ cmd' = [NoCmd EXCEPT !.op = "recommend_movies", !.user = user]
        /\ res' = recommend_movies(user, movies, ratings)
        /\ UNCHANGED <<movies, ratings>>

\* the handler returns and main's loop shows the menu again
Menu ==
    /\ cmd # NoCmd
    /\ cmd' = NoCmd
    /\ res' = << >>
    /\ UNCHANGED <<movies, ratings>>

Next == Menu \/ TopMovies \/ TopMoviesInGenre \/ TopGenres \/ UserTopGenre \/ Recommend

Spec == Init /\ [][Next]_vars

SpecOrder == InitOrder /\ [][Next]_vars

SpecPool == InitPool /\ [][Next]_vars

(***************************************************************************)
(* What the claims speak of, stated on the state itself.                   *)
(***************************************************************************)
RankingOps == {"top_movies", "top_movies_in_genre", "top_genres"}

Elems(s) == {s[i] : i \in 1..Len(s)}

Distinct(s) == \A i, j \in 1..Len(s) : i # j => s[i] # s[j]

Min(a, b) == IF a < b THEN a ELSE b

\* the RatingStore's list for a movie, empty when the movie is not in it
RatingsOf(m) == Get(ratings, m, << >>)

\* the RatingStore holds an observation by user u on movie m
HasObservationBy(u, m) ==
    \E i \in 1..Len(ratings) :
        /\ ratings[i][1] = m
        /\ \E j \in 1..Len(ratings[i][2]) : ratings[i][2][j][1] = u

\* the catalog entries (indices) of a genre that have at least one rating
RatedOfGenre(g) ==
    {i \in 1..Len(movies) : movies[i][2][2] = g /\ RatingsOf(movies[i][1]) # << >>}

RatedGenres == {movies[i][2][2] : i \in {j \in 1..Len(movies) : RatingsOf(movies[j][1]) # << >>}}

\* genreAverage: the mean of the per-movie averages of the genre's rated movies
GenreAverage(g) ==
    LET S == RatedOfGenre(g)
        total == For(LAMBDA acc, i : IF i \in S
                                     THEN FracAdd(acc, Average(RatingsOf(movies[i][1])))
                                     ELSE acc,
                     1, Len(movies), Frac(0, 1))
    IN  FracDiv(total, Cardinality(S))

\* the pooled mean of all the individual ratings of the genre's movies
PooledAverage(g) ==
    LET S == RatedOfGenre(g)
        sum == For(LAMBDA acc, i : IF i \in S THEN acc + SumRatings(RatingsOf(movies[i][1]))
                                   ELSE acc, 1, Len(movies), 0)
        cnt == For(LAMBDA acc, i : IF i \in S THEN acc + Len(RatingsOf(movies[i][1]))
                                   ELSE acc, 1, Len(movies), 0)
    IN  Frac(sum, cnt)

\* the score an entry of a ranking is ranked by
Score(key) ==
    IF cmd.op = "top_genres" THEN GenreAverage(key) ELSE Average(RatingsOf(key))

\* the entries (indices) of the RatingStore that hold an observation by u on
\* a movie the catalog gives genre g
UserEntries(u, g) ==
    {i \in 1..Len(ratings) :
        /\ \E j \in 1..Len(ratings[i][2]) : ratings[i][2][j][1] = u
        /\ \E k \in 1..Len(movies) : movies[k][1] = ratings[i][1] /\ movies[k][2][2] = g}

\* the genres of the cataloged movies u rated
UserGenres(u) == {movies[k][2][2] : k \in {j \in 1..Len(movies) : HasObservationBy(u, movies[j][1])}}

\* the mean of every rating u gave to a cataloged movie of genre g
UserMean(u, g) ==
    LET S == UserEntries(u, g)
        mine(i) == {j \in 1..Len(ratings[i][2]) : ratings[i][2][j][1] = u}
        sum == For(LAMBDA acc, i :
                       IF i \in S
                       THEN For(LAMBDA a, j : IF j \in mine(i) THEN a + ratings[i][2][j][2] ELSE a,
                                1, Len(ratings[i][2]), acc)
                       ELSE acc, 1, Len(ratings), 0)
        cnt == For(LAMBDA acc, i : IF i \in S THEN acc + Cardinality(mine(i)) ELSE acc,
                   1, Len(ratings), 0)
    IN  Frac(sum, cnt)

\* where the pass over the RatingStore first meets genre g for user u
FirstSeen(u, g) == CHOOSE i \in UserEntries(u, g) : \A k \in UserEntries(u, g) : i <= k

\* the genres whose mean for u is the highest
TopUserGenres(u) ==
    {g \in UserGenres(u) : \A h \in UserGenres(u) : ~FracLess(UserMean(u, g), UserMean(u, h))}

\* the position of x in s
PosIn(s, x) == CHOOSE i \in 1..Len(s) : s[i] = x

(***************************************************************************)
(* C1: for every n <= 0, top_movies, top_movies_in_genre and top_genres    *)
(* return the empty sequence.                                              *)
(***************************************************************************)
C1_EmptyForNonPositiveN ==
    (cmd.op \in RankingOps /\ cmd.n <= 0) => res = << >>

\* top_movies_in_genre(50, user_top_genre(u)) for the user of the command
C2_Pool ==
    top_movies_in_genre(50, user_top_genre(cmd.user, movies, ratings), movies, ratings)

(***************************************************************************)
(* C2: recommend_movies(u) returns no movie u has an observation on, at    *)
(* most 3 movies, and a subsequence of top_movies_in_genre(50,             *)
(* user_top_genre(u)).                                                     *)
(***************************************************************************)
C2_RecommendSound ==
    cmd.op = "recommend_movies" =>
        /\ \A i \in 1..Len(res) : ~HasObservationBy(cmd.user, res[i])
        /\ Len(res) <= 3
        /\ \A i \in 1..Len(res) : res[i] \in Elems(C2_Pool)
        /\ \A i, j \in 1..Len(res) : i < j => PosIn(C2_Pool, res[i]) < PosIn(C2_Pool, res[j])

\* three movies are recommended, out of more than three unrated candidates,
\* and a candidate the user rated is left out
C2_Witness ==
    /\ cmd.op = "recommend_movies"
    /\ Len(res) = 3
    /\ \E m \in Elems(C2_Pool) : HasObservationBy(cmd.user, m)
    /\ Cardinality({m \in Elems(C2_Pool) : ~HasObservationBy(cmd.user, m)}) > 3

(***************************************************************************)
(* C3: top_genres(n), n >= 0, is the first n of the genres that have a     *)
(* rated movie, in descending order of the mean of the per-movie averages  *)
(* of their rated movies; a genre without a rated movie never appears.     *)
(***************************************************************************)
C3_TopGenresByAverageOfAverages ==
    (cmd.op = "top_genres" /\ cmd.n >= 0) =>
        /\ Len(res) = Min(cmd.n, Cardinality(RatedGenres))
        /\ Distinct(res)
        /\ Elems(res) \subseteq RatedGenres
        /\ \A i, j \in 1..Len(res) :
               i < j => ~FracLess(GenreAverage(res[i]), GenreAverage(res[j]))
        /\ \A g \in RatedGenres \ Elems(res) :
               \A i \in 1..Len(res) : ~FracLess(GenreAverage(res[i]), GenreAverage(g))

\* two genres are ranked, and their pooled means order them the other way round
C3_Witness ==
    /\ cmd.op = "top_genres"
    /\ Len(res) = 2
    /\ FracLess(GenreAverage(res[2]), GenreAverage(res[1]))
    /\ FracLess(PooledAverage(res[1]), PooledAverage(res[2]))

(***************************************************************************)
(* C4: in the output of the three rankings, of two entries a before b      *)
(* either score(a) > score(b), or the scores are equal and a < b           *)
(* lexicographically.                                                      *)
(***************************************************************************)
C4_DescendingThenName ==
    cmd.op \in RankingOps =>
        \A i, j \in 1..Len(res) :
            i < j =>
                \/ FracLess(Score(res[j]), Score(res[i]))
                \/ Score(res[i]) = Score(res[j]) /\ LexLess(res[i], res[j])

\* two entries with the same score are returned
C4_Witness ==
    /\ cmd.op \in RankingOps
    /\ Len(res) >= 2
    /\ Score(res[1]) = Score(res[2])

\* the catalog movies of the requested genre that have a rating
C5_Qualifying == {movies[i][1] : i \in RatedOfGenre(cmd.genre)}

(***************************************************************************)
(* C5: top_movies_in_genre returns only catalog movies of exactly the      *)
(* requested genre that have a rating, and all of them when n >= 0 and at  *)
(* most n qualify.                                                         *)
(***************************************************************************)
C5_OnlyRatedMoviesOfGenre ==
    cmd.op = "top_movies_in_genre" =>
        /\ Elems(res) \subseteq C5_Qualifying
        /\ (cmd.n >= 0 /\ Cardinality(C5_Qualifying) <= cmd.n) => Elems(res) = C5_Qualifying

\* a movie of the genre is returned while another movie of the genre, which
\* has no rating, is not
C5_Witness ==
    /\ cmd.op = "top_movies_in_genre"
    /\ res # << >>
    /\ \E i \in 1..Len(movies) :
           movies[i][2][2] = cmd.genre /\ RatingsOf(movies[i][1]) = << >>

(***************************************************************************)
(* C6: user_top_genre(u) returns a genre whose mean of all of u's ratings  *)
(* of its cataloged movies is the highest; among several such genres, the  *)
(* one the pass over the RatingStore meets first.                          *)
(***************************************************************************)
C6_FirstBestGenre ==
    (cmd.op = "user_top_genre" /\ UserGenres(cmd.user) # {}) =>
        /\ res \in TopUserGenres(cmd.user)
        /\ \A g \in TopUserGenres(cmd.user) :
               g # res => FirstSeen(cmd.user, res) < FirstSeen(cmd.user, g)

\* two genres share the highest mean, and the later one sorts first
C6_Witness ==
    /\ cmd.op = "user_top_genre"
    /\ Cardinality(TopUserGenres(cmd.user)) = 2
    /\ \E g \in TopUserGenres(cmd.user) : LexLess(g, res)

\* the orders of the items of s
Perms(s) == {[i \in 1..Len(s) |-> s[p[i]]] : p \in Permutations(1..Len(s))}

\* the stores with the lists of r reordered
RECURSIVE ListReorderings(_)
ListReorderings(r) ==
    IF r = << >> THEN {<< >>}
    ELSE {<< <<Head(r)[1], l>> >> \o rest :
              l \in Perms(Head(r)[2]), rest \in ListReorderings(Tail(r))}

\* the stores with the content of r
Reorderings(r) == UNION {Perms(x) : x \in ListReorderings(r)}

RunQuery(c, ms, rs) ==
    CASE c.op = "top_movies" -> top_movies(c.n, rs)
      [] c.op = "top_movies_in_genre" -> top_movies_in_genre(c.n, c.genre, ms, rs)
      [] c.op = "top_genres" -> top_genres(c.n, ms, rs)
      [] c.op = "user_top_genre" -> user_top_genre(c.user, ms, rs)
      [] c.op = "recommend_movies" -> recommend_movies(c.user, ms, rs)

C8_UnknownNamesGiveEmpty ==
    /\ (cmd.op \in {"user_top_genre", "recommend_movies"} /\ UserGenres(cmd.user) = {})
           => res = << >>
    /\ (cmd.op = "top_movies_in_genre"
            /\ \A i \in 1..Len(movies) : movies[i][2][2] # cmd.genre)
           => res = << >>

\* the user rated movies, all of them missing from a catalog that is not empty
C8_Witness ==
    /\ cmd.op \in {"user_top_genre", "recommend_movies"}
    /\ UserGenres(cmd.user) = {}
    /\ \E i \in 1..Len(ratings) : HasObservationBy(cmd.user, ratings[i][1])
    /\ movies # << >>

(***************************************************************************)
(* C9: recommend_movies(u) is the first 3 of ALL the rated movies of u's   *)
(* top genre that u has no observation on, by average descending then name *)
(* ascending, however many movies the genre has.                           *)
(***************************************************************************)
C9_RecommendFromWholeGenre ==
    cmd.op = "recommend_movies" =>
        LET fav == user_top_genre(cmd.user, movies, ratings)
            all == top_movies_in_genre(Len(movies), fav, movies, ratings)
            unrated == SelectSeq(all, LAMBDA m : ~HasObservationBy(cmd.user, m))
        IN  res = SubSeq(unrated, 1, Min(3, Len(unrated)))

(***************************************************************************)
(* C10: when u has an observation on a cataloged movie, user_top_genre(u)  *)
(* is not the empty string.                                                *)
(***************************************************************************)
C10_NoSentinelWithData ==
    (cmd.op = "user_top_genre" /\ UserGenres(cmd.user) # {}) => res # EmptyStr

=============================================================================
